---- MODULE Spec2Model ----
(***************************************************************************)
(* CueMeetClient: a typed wrapper around the CueMeet REST service.         *)
(*                                                                         *)
(* Strings are sequences of one-character strings.  Messages and request   *)
(* paths are sequences of fragments, so that template literals are         *)
(* concatenations.  An optional value is the empty sequence (undefined)    *)
(* or a one-element sequence.  A string-typed argument that the caller     *)
(* left out is the value Undefined.                                        *)
(*                                                                         *)
(* One operation call is in progress at a time (pc), setBaseUrl may run    *)
(* at any point, also while a request is in flight.  `requests` is what    *)
(* the transport recorded for the call in progress.  cfgInput is the base  *)
(* URL argument that was last accepted and configuredBy the operation that *)
(* accepted it; setLog is the argument and the error of the last           *)
(* setBaseUrl call.                                                        *)
(***************************************************************************)
EXTENDS Integers, Sequences, FiniteSets, TLC

VARIABLES baseUrl, defaultsBaseURL, injected, cfgInput, configuredBy, setLog,
          pc, op, args, requests, reply, thrown, outcome

vars == <<baseUrl, defaultsBaseURL, injected, cfgInput, configuredBy, setLog,
          pc, op, args, requests, reply, thrown, outcome>>

configVars == <<baseUrl, defaultsBaseURL, injected, cfgInput, configuredBy,
                setLog>>
callVars == <<pc, op, args, requests, reply, thrown, outcome>>

----------------------------------------------------------------------------
(* Values *)

Undefined == <<"undefined">>

Request(method, url, data, params) ==
  [method |-> method, url |-> url, data |-> data, params |-> params]

NoArgs == [params |-> <<>>, apiKey |-> Undefined, email |-> Undefined,
           name |-> Undefined, userId |-> Undefined, id |-> Undefined,
           meetingUrl |-> Undefined]

NoReply == [kind |-> "none"]
Pending == [kind |-> "pending"]
Resolved(value) == [kind |-> "resolved", value |-> value]
Rejected(error) == [kind |-> "rejected", error |-> error]

(* utils/errors *)

MakeError(name, message, status, code) ==
  [name |-> name, message |-> message, status |-> status, code |-> code,
   isAxiosError |-> FALSE, response |-> <<>>, request |-> FALSE]

CueMeetError(message, status) ==
  MakeError("CueMeetError", message, status, <<>>)

ValidationError(message) ==
  MakeError("ValidationError", message, <<400>>, <<"VALIDATION_ERROR">>)

PlainError(message) == MakeError("Error", message, <<>>, <<>>)

AxiosError(message, response, request) ==
  [name |-> "AxiosError", message |-> message, status |-> <<>>, code |-> <<>>,
   isAxiosError |-> TRUE, response |-> response, request |-> request]

InstanceOfCueMeetError(error) ==
  error.name \in {"CueMeetError", "ValidationError", "AuthenticationError",
                  "NotFoundError", "RateLimitError"}

----------------------------------------------------------------------------
(* Bounds and input domains *)

MaxUrlLen == 2

MaxNameLength == 100

RECURSIVE SeqsUpTo(_, _)
SeqsUpTo(S, n) ==
  IF n = 0 THEN {<<>>}
  ELSE LET shorter == SeqsUpTo(S, n - 1)
       IN shorter \cup {Append(s, c) : s \in shorter, c \in S}

Repeat(c, n) == [i \in 1..n |-> c]

BaseUrlInputs == SeqsUpTo({"x", "/"}, MaxUrlLen)

Emails == {Undefined, <<>>, <<"e">>, <<"e", "@", "d">>}
ShortNames == {Undefined, <<>>, <<"B">>}
KeyNames == {Undefined} \cup
            {Repeat("a", n) : n \in {0, 1, MaxNameLength, MaxNameLength + 1}}
Ids == {<<>>, <<"1">>, <<"2">>}
ApiKeys == {<<>>, <<" ">>, <<"k">>, <<"j">>}
MeetingUrls == {<<>>, <<" ">>, <<"m">>, <<"m", ":", "/">>}
QueryParams == {<<>>, <<[page |-> 1, limit |-> 10]>>}

SuccessStatuses == {200, 201}
ErrorStatuses == {404, 500}
BodyMessages == {Undefined, <<>>, <<"not found">>}
GenericMessages == {<<"Request failed">>}
NetworkMessages == {<<"Network Error">>, <<"timeout exceeded">>}
Bodies == {[id |-> "789", status |-> "PENDING"],
           [success |-> TRUE],
           [transcript |-> <<>>, total |-> 0, hasMore |-> FALSE]}

----------------------------------------------------------------------------
(* JavaScript helpers *)

Falsy(s) == s = Undefined \/ s = <<>>

EndsWith(s, c) == Len(s) > 0 /\ s[Len(s)] = c

SliceOffLast(s) == SubSeq(s, 1, Len(s) - 1)

RECURSIVE TrimStart(_)
TrimStart(s) ==
  IF Len(s) > 0 /\ s[1] = " " THEN TrimStart(Tail(s)) ELSE s

RECURSIVE TrimEnd(_)
TrimEnd(s) ==
  IF Len(s) > 0 /\ s[Len(s)] = " " THEN TrimEnd(SliceOffLast(s)) ELSE s

Trim(s) == TrimEnd(TrimStart(s))

(* new URL(url) without a base: succeeds iff, once surrounding whitespace  *)
(* is stripped, the string starts with a scheme (a letter, then scheme     *)
(* characters) followed by ':'.  "m" is the only letter of the alphabet    *)
(* and stands for a non-special scheme.                                    *)
UrlParses(url) ==
  LET t == Trim(url)
  IN \E i \in 2..Len(t) :
       /\ t[i] = ":"
       /\ \A j \in 1..(i - 1) : t[j] = "m"

----------------------------------------------------------------------------
----------------------------------------------------------------------------
(* Client configuration *)

ApiSuffix == <<"/", "a", "p", "i", "/", "v", "1">>

ConstructorBaseUrl(optionsBaseUrl) ==
  IF EndsWith(optionsBaseUrl, "/")
  THEN SliceOffLast(optionsBaseUrl) \o ApiSuffix
  ELSE optionsBaseUrl \o ApiSuffix

SetBaseUrlNoStrip(u) == u \o ApiSuffix

RECURSIVE StripAllSlashes(_)
StripAllSlashes(u) ==
  IF EndsWith(u, "/") THEN StripAllSlashes(SliceOffLast(u)) ELSE u

SetBaseUrlStripAll(u) == StripAllSlashes(u) \o ApiSuffix

SetBaseUrlValue(u) ==
  IF EndsWith(u, "/")
  THEN SliceOffLast(u) \o ApiSuffix
  ELSE u \o ApiSuffix

Init ==
  /\ injected \in BOOLEAN
  /\ \E u \in BaseUrlInputs :
       /\ ~Falsy(u)
       /\ cfgInput = u
       /\ baseUrl = ConstructorBaseUrl(u)
       /\ defaultsBaseURL = IF injected THEN Undefined ELSE ConstructorBaseUrl(u)
  /\ configuredBy = "constructor"
  /\ setLog = <<>>
  /\ pc = "idle"
  /\ op = "none"
  /\ args = NoArgs
  /\ requests = <<>>
  /\ reply = NoReply
  /\ thrown = <<>>
  /\ outcome = Pending

setBaseUrlForgetsDefaults ==
  \E u \in BaseUrlInputs :
    IF Falsy(u)
    THEN /\ setLog' = <<[input |-> u,
                         threw |-> <<PlainError(<<"baseUrl cannot be empty">>)>>]>>
         /\ UNCHANGED <<baseUrl, defaultsBaseURL, injected, cfgInput, configuredBy>>
         /\ UNCHANGED callVars
    ELSE /\ baseUrl' = SetBaseUrlValue(u)
         /\ cfgInput' = u
         /\ configuredBy' = "setBaseUrl"
         /\ setLog' = <<[input |-> u, threw |-> <<>>]>>
         /\ UNCHANGED <<defaultsBaseURL, injected>>
         /\ UNCHANGED callVars

setBaseUrlNoEmptyCheck ==
  \E u \in BaseUrlInputs :
    /\ baseUrl' = SetBaseUrlValue(u)
    /\ defaultsBaseURL' = SetBaseUrlValue(u)
    /\ cfgInput' = u
    /\ configuredBy' = "setBaseUrl"
    /\ setLog' = <<[input |-> u, threw |-> <<>>]>>
    /\ UNCHANGED injected
    /\ UNCHANGED callVars

setBaseUrl ==
  \E u \in BaseUrlInputs :
    IF Falsy(u)
    THEN /\ setLog' = <<[input |-> u,
                         threw |-> <<PlainError(<<"baseUrl cannot be empty">>)>>]>>
         /\ UNCHANGED <<baseUrl, defaultsBaseURL, injected, cfgInput, configuredBy>>
         /\ UNCHANGED callVars
    ELSE /\ baseUrl' = SetBaseUrlValue(u)
         /\ defaultsBaseURL' = SetBaseUrlValue(u)
         /\ cfgInput' = u
         /\ configuredBy' = "setBaseUrl"
         /\ setLog' = <<[input |-> u, threw |-> <<>>]>>
         /\ UNCHANGED injected
         /\ UNCHANGED callVars

----------------------------------------------------------------------------
(* Pre-flight validation.  Each operator yields <<>> when the arguments    *)
(* pass and <<error>> for the error the checks throw.                      *)

_validateApiKey(apiKey) ==
  IF Falsy(apiKey) \/ Len(Trim(apiKey)) = 0
  THEN <<ValidationError(<<"API key is required and must be a non-empty string">>)>>
  ELSE <<>>

_validateMeetingUrlNoParse(url) ==
  IF Falsy(url) \/ Len(Trim(url)) = 0
  THEN <<ValidationError(<<"Meeting URL is required and must be a non-empty string">>)>>
  ELSE <<>>

_validateMeetingUrl(url) ==
  IF Falsy(url) \/ Len(Trim(url)) = 0
  THEN <<ValidationError(<<"Meeting URL is required and must be a non-empty string">>)>>
  ELSE IF ~UrlParses(url)
  THEN <<ValidationError(<<"Invalid meeting URL format">>)>>
  ELSE <<>>

Includes(s, c) == \E i \in 1..Len(s) : s[i] = c

(* declared by the client and called by none of its methods *)
_validateUserData(userData) ==
  IF Falsy(userData.email) \/ ~Includes(userData.email, "@")
  THEN <<ValidationError(<<"Valid email is required">>)>>
  ELSE IF Falsy(userData.name) \/ Len(Trim(userData.name)) = 0
  THEN <<ValidationError(<<"Name is required and must be a non-empty string">>)>>
  ELSE <<>>

createUserChecks(userData) ==
  IF Falsy(userData.email)
  THEN <<CueMeetError(<<"email is required for user creation">>, <<400>>)>>
  ELSE IF Falsy(userData.name)
  THEN <<CueMeetError(<<"name is required for user creation">>, <<400>>)>>
  ELSE <<>>

createApiKeyChecksOffByOne(keyData) ==
  IF Falsy(keyData.userId)
  THEN <<CueMeetError(<<"userId is required for API key creation">>, <<400>>)>>
  ELSE IF Falsy(keyData.name)
  THEN <<CueMeetError(<<"name is required for API key creation">>, <<400>>)>>
  ELSE IF Len(keyData.name) >= MaxNameLength
  THEN <<CueMeetError(<<"name must not exceed 100 characters">>, <<400>>)>>
  ELSE <<>>

createApiKeyChecks(keyData) ==
  IF Falsy(keyData.userId)
  THEN <<CueMeetError(<<"userId is required for API key creation">>, <<400>>)>>
  ELSE IF Falsy(keyData.name)
  THEN <<CueMeetError(<<"name is required for API key creation">>, <<400>>)>>
  ELSE IF Len(keyData.name) > MaxNameLength
  THEN <<CueMeetError(<<"name must not exceed 100 characters">>, <<400>>)>>
  ELSE <<>>

listApiKeysChecks(userId) ==
  IF Falsy(userId)
  THEN <<CueMeetError(<<"userId is required to list API keys">>, <<400>>)>>
  ELSE <<>>

revokeApiKeyChecks(keyId) ==
  IF Falsy(keyId)
  THEN <<PlainError(<<"keyId is required to revoke an API key">>)>>
  ELSE <<>>

createBotChecks(apiKey, botData) ==
  IF Falsy(botData.name)
  THEN <<CueMeetError(<<"name is required for bot creation">>, <<400>>)>>
  ELSE IF Falsy(botData.meetingUrl)
  THEN <<CueMeetError(<<"meetingUrl is required for bot creation">>, <<400>>)>>
  ELSE _validateMeetingUrl(botData.meetingUrl)

retrieveBotChecks(apiKey, botId) ==
  IF _validateApiKey(apiKey) # <<>> THEN _validateApiKey(apiKey)
  ELSE IF Falsy(botId)
  THEN <<CueMeetError(<<"botId is required to retrieve bot">>, <<400>>)>>
  ELSE <<>>

removeBotFromCallChecks(apiKey, botId) ==
  IF _validateApiKey(apiKey) # <<>> THEN _validateApiKey(apiKey)
  ELSE IF Falsy(botId)
  THEN <<CueMeetError(<<"botId is required to remove bot">>, <<400>>)>>
  ELSE <<>>

retrieveTranscriptChecks(apiKey, id) ==
  IF _validateApiKey(apiKey) # <<>> THEN _validateApiKey(apiKey)
  ELSE IF Falsy(id)
  THEN <<CueMeetError(<<"id is required to retrieve transcript">>, <<400>>)>>
  ELSE <<>>

----------------------------------------------------------------------------
(* The request each operation hands to the axios instance.  `data` and     *)
(* `params` are optional values; baseURL is filled in at dispatch.         *)

createUserRequest(userData) ==
  Request("POST", <<"/auth/register">>, <<userData>>, <<>>)

createApiKeyRequest(keyData) ==
  Request("POST", <<"/api-keys">>, <<keyData>>, <<>>)

listApiKeysRequestAsGet(userId) ==
  Request("GET", <<"/api-keys/list">>, <<[userId |-> userId]>>, <<>>)

listApiKeysRequest(userId) ==
  Request("POST", <<"/api-keys/list">>, <<[userId |-> userId]>>, <<>>)

revokeApiKeyRequest(keyId) ==
  Request("DELETE", <<"/api-keys/">> \o keyId, <<>>, <<>>)

createBotRequest(botData) ==
  Request("POST", <<"/bots">>, <<botData>>, <<>>)

retrieveBotRequest(botId) ==
  Request("GET", <<"/bots/">> \o botId, <<>>, <<>>)

removeBotFromCallRequest(botId) ==
  Request("DELETE", <<"/bots/">> \o botId, <<>>, <<>>)

retrieveTranscriptRequest(id, params) ==
  Request("GET", <<"/transcripts/">> \o id, <<>>, params)

(* Headers of the axios instance: the one the constructor creates sets    *)
(* Content-Type, an instance the caller supplies is taken as it comes.     *)
DefaultHeaders ==
  IF injected THEN <<>> ELSE << <<"Content-Type", "application/json">> >>

(* axios merges the instance defaults into the request when it is issued *)
Dispatch(request) ==
  [method |-> request.method, url |-> request.url, data |-> request.data,
   params |-> request.params, baseURL |-> defaultsBaseURL,
   headers |-> DefaultHeaders]

----------------------------------------------------------------------------
(* Error normalisation *)

(* error.response?.data?.message || error.message *)
InterceptorMessage(error) ==
  IF error.response # <<>> /\ ~Falsy(error.response[1].data.message)
  THEN error.response[1].data.message
  ELSE error.message

InterceptorStatus(error) ==
  IF error.response # <<>> THEN <<error.response[1].status>> ELSE <<>>

ResponseInterceptor(error) ==
  IF error.isAxiosError
  THEN CueMeetError(InterceptorMessage(error), InterceptorStatus(error))
  ELSE error

JsonStringify(data) ==
  IF data.message = Undefined THEN <<"{}">>
  ELSE <<"{\"message\":\"">> \o data.message \o <<"\"}">>

_handleError(error, message) ==
  IF error.isAxiosError /\ error.response # <<>>
  THEN PlainError(message \o <<": ", ToString(error.response[1].status), " - ">>
                    \o JsonStringify(error.response[1].data))
  ELSE IF error.isAxiosError /\ error.request
  THEN PlainError(message \o <<": No response received from server">>)
  ELSE PlainError(message \o <<": ">> \o error.message)

RethrowOrWrap(error, message) ==
  IF InstanceOfCueMeetError(error) THEN error
  ELSE CueMeetError(message, <<500>>)

createUserCatch(error) == RethrowOrWrap(error, <<"Failed to create user">>)

createApiKeyCatch(error) == RethrowOrWrap(error, <<"Failed to create API key">>)

listApiKeysCatch(error) == RethrowOrWrap(error, <<"Failed to list API keys">>)

revokeApiKeyCatch(error, keyId) ==
  _handleError(error, <<"Failed to revoke API key: ">> \o keyId)

createBotCatch(error) == RethrowOrWrap(error, <<"Failed to create bot">>)

retrieveBotCatch(error) == RethrowOrWrap(error, <<"Failed to retrieve bot">>)

removeBotFromCallCatch(error) == RethrowOrWrap(error, <<"Failed to remove bot">>)

retrieveTranscriptCatch(error) ==
  RethrowOrWrap(error, <<"Failed to retrieve transcript">>)

Catch(error) ==
  CASE op = "createUser" -> createUserCatch(error)
    [] op = "createApiKey" -> createApiKeyCatch(error)
    [] op = "listApiKeys" -> listApiKeysCatch(error)
    [] op = "revokeApiKey" -> revokeApiKeyCatch(error, args.id)
    [] op = "createBot" -> createBotCatch(error)
    [] op = "retrieveBot" -> retrieveBotCatch(error)
    [] op = "removeBotFromCall" -> removeBotFromCallCatch(error)
    [] op = "retrieveTranscript" -> retrieveTranscriptCatch(error)

ReturnWholeResponse(response) == response

ReturnResponseData(response) == response.data

----------------------------------------------------------------------------
(* Operations: the part of each async method that runs up to its await.    *)
(* `failed` is what the pre-flight checks threw, `rejection` the error the *)
(* promise rejects with in that case, `request` what is sent otherwise.    *)

Begin(o, a, failed, rejection, request) ==
  /\ pc = "idle"
  /\ op' = o
  /\ args' = a
  /\ reply' = NoReply
  /\ thrown' = failed
  /\ IF failed # <<>>
     THEN /\ pc' = "done"
          /\ requests' = <<>>
          /\ outcome' = Rejected(rejection)
     ELSE /\ pc' = "inflight"
          /\ requests' = <<Dispatch(request)>>
          /\ outcome' = Pending
  /\ UNCHANGED configVars

createUser ==
  \E email \in Emails, name \in ShortNames :
    LET userData == [email |-> email, name |-> name]
        failed == createUserChecks(userData)
    IN Begin("createUser", [NoArgs EXCEPT !.email = email, !.name = name],
             failed,
             IF failed # <<>> THEN createUserCatch(failed[1]) ELSE Undefined,
             createUserRequest(userData))

createApiKey ==
  \E userId \in Ids, name \in KeyNames :
    LET keyData == [name |-> name, userId |-> userId]
        failed == createApiKeyChecks(keyData)
    IN Begin("createApiKey", [NoArgs EXCEPT !.userId = userId, !.name = name],
             failed,
             IF failed # <<>> THEN failed[1] ELSE Undefined,
             createApiKeyRequest(keyData))

listApiKeys ==
  \E userId \in Ids :
    LET failed == listApiKeysChecks(userId)
    IN Begin("listApiKeys", [NoArgs EXCEPT !.userId = userId],
             failed,
             IF failed # <<>> THEN failed[1] ELSE Undefined,
             listApiKeysRequest(userId))

revokeApiKey ==
  \E keyId \in Ids :
    LET failed == revokeApiKeyChecks(keyId)
    IN Begin("revokeApiKey", [NoArgs EXCEPT !.id = keyId],
             failed,
             IF failed # <<>> THEN failed[1] ELSE Undefined,
             revokeApiKeyRequest(keyId))

createBot ==
  \E apiKey \in ApiKeys, name \in ShortNames, meetingUrl \in MeetingUrls :
    LET botData == [name |-> name, meetingUrl |-> meetingUrl]
        failed == createBotChecks(apiKey, botData)
    IN Begin("createBot",
             [NoArgs EXCEPT !.apiKey = apiKey, !.name = name,
                            !.meetingUrl = meetingUrl],
             failed,
             IF failed # <<>> THEN failed[1] ELSE Undefined,
             createBotRequest(botData))

retrieveBotSendsKey ==
  \E apiKey \in ApiKeys, botId \in Ids :
    LET failed == retrieveBotChecks(apiKey, botId)
    IN Begin("retrieveBot", [NoArgs EXCEPT !.apiKey = apiKey, !.id = botId],
             failed,
             IF failed # <<>> THEN failed[1] ELSE Undefined,
             Request("GET", <<"/bots/">> \o botId, <<>>, <<[apiKey |-> apiKey]>>))

retrieveBot ==
  \E apiKey \in ApiKeys, botId \in Ids :
    LET failed == retrieveBotChecks(apiKey, botId)
    IN Begin("retrieveBot", [NoArgs EXCEPT !.apiKey = apiKey, !.id = botId],
             failed,
             IF failed # <<>> THEN failed[1] ELSE Undefined,
             retrieveBotRequest(botId))

removeBotFromCall ==
  \E apiKey \in ApiKeys, botId \in Ids :
    LET failed == removeBotFromCallChecks(apiKey, botId)
    IN Begin("removeBotFromCall",
             [NoArgs EXCEPT !.apiKey = apiKey, !.id = botId],
             failed,
             IF failed # <<>> THEN failed[1] ELSE Undefined,
             removeBotFromCallRequest(botId))

retrieveTranscript ==
  \E apiKey \in ApiKeys, id \in Ids, params \in QueryParams :
    LET failed == retrieveTranscriptChecks(apiKey, id)
    IN Begin("retrieveTranscript",
             [NoArgs EXCEPT !.apiKey = apiKey, !.id = id, !.params = params],
             failed,
             IF failed # <<>> THEN failed[1] ELSE Undefined,
             retrieveTranscriptRequest(id, params))

----------------------------------------------------------------------------
(* The transport settles the request in flight; the response interceptor   *)
(* and then the operation's own try/catch run on the result.               *)

Settle(r, result) ==
  /\ pc = "inflight"
  /\ pc' = "done"
  /\ reply' = r
  /\ outcome' = result
  /\ UNCHANGED <<op, args, requests>>
  /\ UNCHANGED configVars

Fail(r, reason) ==
  /\ thrown' = <<ResponseInterceptor(reason)>>
  /\ Settle(r, Rejected(Catch(ResponseInterceptor(reason))))

TransportSuccess ==
  \E status \in SuccessStatuses, body \in Bodies :
    LET response == [data |-> body, status |-> status]
    IN /\ thrown' = <<>>
       /\ Settle([kind |-> "success", response |-> response],
                 Resolved(ReturnResponseData(response)))

TransportErrorResponse ==
  \E status \in ErrorStatuses, m \in BodyMessages,
     generic \in GenericMessages :
    LET response == [data |-> [message |-> m], status |-> status]
        reason == AxiosError(generic, <<response>>, TRUE)
    IN Fail([kind |-> "errorResponse", reason |-> reason], reason)

TransportNoResponse ==
  \E m \in NetworkMessages :
    LET reason == AxiosError(m, <<>>, TRUE)
    IN Fail([kind |-> "noResponse", reason |-> reason], reason)

TransportUnexpected ==
  LET reason == MakeError("TypeError", <<"boom">>, <<>>, <<>>)
  IN Fail([kind |-> "unexpected", reason |-> reason], reason)

Return ==
  /\ pc = "done"
  /\ pc' = "idle"
  /\ op' = "none"
  /\ args' = NoArgs
  /\ requests' = <<>>
  /\ reply' = NoReply
  /\ thrown' = <<>>
  /\ outcome' = Pending
  /\ UNCHANGED configVars

Next ==
  \/ setBaseUrl
  \/ createUser
  \/ createApiKey
  \/ listApiKeys
  \/ revokeApiKey
  \/ createBot
  \/ retrieveBot
  \/ removeBotFromCall
  \/ retrieveTranscript
  \/ TransportSuccess
  \/ TransportErrorResponse
  \/ TransportNoResponse
  \/ TransportUnexpected
  \/ Return

Spec == Init /\ [][Next]_vars

----------------------------------------------------------------------------
(* Vocabulary of the properties *)

MissingOrEmpty(s) == s = Undefined \/ Len(s) = 0

OnlyWhitespace(s) == \A i \in 1..Len(s) : s[i] = " "

Authenticated == {"retrieveBot", "removeBotFromCall", "retrieveTranscript"}

(* The arguments of the call in progress fail the pre-flight validation    *)
(* of its operation.                                                       *)
ArgsFailValidation ==
  CASE op = "createUser" ->
         MissingOrEmpty(args.email) \/ MissingOrEmpty(args.name)
    [] op = "createApiKey" ->
         \/ MissingOrEmpty(args.userId)
         \/ MissingOrEmpty(args.name)
         \/ Len(args.name) > 100
    [] op = "listApiKeys" -> MissingOrEmpty(args.userId)
    [] op = "revokeApiKey" -> MissingOrEmpty(args.id)
    [] op = "createBot" ->
         \/ MissingOrEmpty(args.name)
         \/ MissingOrEmpty(args.meetingUrl)
         \/ ~UrlParses(args.meetingUrl)
    [] op \in Authenticated ->
         \/ MissingOrEmpty(args.apiKey)
         \/ OnlyWhitespace(args.apiKey)
         \/ MissingOrEmpty(args.id)
    [] OTHER -> FALSE

(* The method/path table of the request dispatcher *)
TableVerb ==
  CASE op \in {"createUser", "createApiKey", "listApiKeys", "createBot"} -> "POST"
    [] op \in {"revokeApiKey", "removeBotFromCall"} -> "DELETE"
    [] op \in {"retrieveBot", "retrieveTranscript"} -> "GET"

TablePath ==
  CASE op = "createUser" -> <<"/auth/register">>
    [] op = "createApiKey" -> <<"/api-keys">>
    [] op = "listApiKeys" -> <<"/api-keys/list">>
    [] op = "revokeApiKey" -> <<"/api-keys/">> \o args.id
    [] op = "createBot" -> <<"/bots">>
    [] op \in {"retrieveBot", "removeBotFromCall"} -> <<"/bots/">> \o args.id
    [] op = "retrieveTranscript" -> <<"/transcripts/">> \o args.id

OperationFailureMessage ==
  CASE op = "createUser" -> <<"Failed to create user">>
    [] op = "createApiKey" -> <<"Failed to create API key">>
    [] op = "listApiKeys" -> <<"Failed to list API keys">>
    [] op = "revokeApiKey" -> <<"Failed to revoke API key: ">> \o args.id
    [] op = "createBot" -> <<"Failed to create bot">>
    [] op = "retrieveBot" -> <<"Failed to retrieve bot">>
    [] op = "removeBotFromCall" -> <<"Failed to remove bot">>
    [] op = "retrieveTranscript" -> <<"Failed to retrieve transcript">>

(* message `whole` contains message `part` as a run of fragments *)
ContainsMessage(whole, part) ==
  \E i \in 1..(Len(whole) - Len(part) + 1) :
    SubSeq(whole, i, i + Len(part) - 1) = part

HasApiSuffix == 
  /\ Len(baseUrl) >= Len(ApiSuffix)
  /\ SubSeq(baseUrl, Len(baseUrl) - Len(ApiSuffix) + 1, Len(baseUrl)) = ApiSuffix

BasePrefix == SubSeq(baseUrl, 1, Len(baseUrl) - Len(ApiSuffix))

LastSetSucceeded == setLog # <<>> /\ setLog[1].threw = <<>>

----------------------------------------------------------------------------
(* C1: a call whose arguments fail the operation's pre-flight validation   *)
(* is rejected and the transport records no request for it.                *)
C1_InvalidCallSendsNothing ==
  (pc # "idle" /\ ArgsFailValidation) =>
    /\ pc = "done"
    /\ outcome.kind = "rejected"
    /\ requests = <<>>

C1_Witness ==
  /\ pc = "done"
  /\ op = "createBot"
  /\ args.name = <<"B">>
  /\ args.meetingUrl = <<"m">>
  /\ outcome.kind = "rejected"
  /\ requests = <<>>

(* C2: a server response of non-2xx status s with body message m makes     *)
(* every operation reject with a typed error of status s and message m,    *)
(* or the transport's generic message when the body has none.              *)
C2_ServerErrorIsTypedWithStatus ==
  (pc = "done" /\ reply.kind = "errorResponse") =>
    LET response == reply.reason.response[1]
    IN /\ outcome.kind = "rejected"
       /\ InstanceOfCueMeetError(outcome.error)
       /\ outcome.error.status = <<response.status>>
       /\ outcome.error.message =
            IF MissingOrEmpty(response.data.message)
            THEN reply.reason.message
            ELSE response.data.message

(* C3: a typed domain error raised earlier in the call (by validation or   *)
(* by the response interceptor) reaches the caller unchanged.              *)
C3_TypedErrorReachesCallerUnchanged ==
  (pc = "done" /\ thrown # <<>> /\ InstanceOfCueMeetError(thrown[1])) =>
    outcome = Rejected(thrown[1])

(* C4: every pre-flight validation failure is a typed error of kind        *)
(* VALIDATION_ERROR with status 400.                                       *)
C4_ValidationFailureIsValidationError ==
  (pc = "done" /\ reply.kind = "none") =>
    /\ outcome.kind = "rejected"
    /\ InstanceOfCueMeetError(outcome.error)
    /\ outcome.error.code = <<"VALIDATION_ERROR">>
    /\ outcome.error.status = <<400>>

(* C5: on a 2xx response with body b the call resolves to exactly b.       *)
C5_SuccessResolvesToBody ==
  (pc = "done" /\ reply.kind = "success") =>
    outcome = Resolved(reply.response.data)

C5_Witness ==
  /\ pc = "done"
  /\ op = "createBot"
  /\ reply.kind = "success"
  /\ reply.response.status = 201
  /\ outcome = Resolved([id |-> "789", status |-> "PENDING"])

(* C6: a call that passes validation issues exactly one request, with the  *)
(* verb and path of the method/path table, also once that request failed.  *)
C6_OneRequestPerCall ==
  (pc # "idle" /\ ~ArgsFailValidation) =>
    /\ Len(requests) = 1
    /\ requests[1].method = TableVerb
    /\ requests[1].url = TablePath

C6_Witness ==
  /\ pc = "done"
  /\ op = "listApiKeys"
  /\ reply.kind = "noResponse"
  /\ outcome.kind = "rejected"
  /\ Len(requests) = 1

(* C7: a transport failure without a response rejects with a typed error   *)
(* that has no status and whose message is fixed, independent of the       *)
(* transport error's own message.                                          *)
C7_NoResponseHasFixedMessage ==
  (pc = "done" /\ reply.kind = "noResponse") =>
    /\ outcome.kind = "rejected"
    /\ InstanceOfCueMeetError(outcome.error)
    /\ outcome.error.status = <<>>
    /\ ~ContainsMessage(outcome.error.message, reply.reason.message)

(* C8: a failure that is neither a typed domain error nor a transport      *)
(* error surfaces as a CueMeetError with status 500 and the operation's    *)
(* fixed message.                                                          *)
C8_UnexpectedFailureIsGeneric500 ==
  (pc = "done" /\ reply.kind = "unexpected") =>
    /\ outcome.kind = "rejected"
    /\ outcome.error.name = "CueMeetError"
    /\ outcome.error.status = <<500>>
    /\ outcome.error.message = OperationFailureMessage

(* C9: for a non-empty u that does not end in '/', setBaseUrl(u + '/') and *)
(* setBaseUrl(u) both leave the stored base URL equal to u + '/api/v1'.    *)
C9_TrailingSlashSameBase ==
  \A u \in BaseUrlInputs :
    ( /\ u # <<>>
      /\ ~EndsWith(u, "/")
      /\ LastSetSucceeded
      /\ setLog[1].input \in {u, u \o <<"/">>} ) =>
    baseUrl = u \o ApiSuffix

C9_Witness ==
  /\ LastSetSucceeded
  /\ setLog[1].input = <<"x", "/">>
  /\ baseUrl = <<"x">> \o ApiSuffix

(* C10: the stored base URL always has the form p + '/api/v1' where p does *)
(* not end with '/'.                                                       *)
C10_PrefixNeverEndsWithSlash ==
  HasApiSuffix /\ ~EndsWith(BasePrefix, "/")

(* C10 as amended: the stored base URL is the configured input with one    *)
(* trailing slash removed, if it had one, followed by '/api/v1'; the part  *)
(* before the suffix ends with '/' exactly when the input ended with two   *)
(* or more slashes.                                                        *)
C10_OneSlashStripped ==
  /\ HasApiSuffix
  /\ IF EndsWith(cfgInput, "/")
     THEN BasePrefix \o <<"/">> = cfgInput
     ELSE BasePrefix = cfgInput
  /\ EndsWith(BasePrefix, "/") <=>
       /\ Len(cfgInput) >= 2
       /\ cfgInput[Len(cfgInput)] = "/"
       /\ cfgInput[Len(cfgInput) - 1] = "/"

C10_Witness ==
  /\ LastSetSucceeded
  /\ setLog[1].input = <<"/", "/">>
  /\ baseUrl = <<"/">> \o ApiSuffix

(* C11: createUser is rejected without contacting the transport whenever   *)
(* email is empty or has no '@', or name is empty, and reaches the         *)
(* transport only otherwise.                                               *)
C11_CreateUserRequiresEmailWithAt ==
  (pc # "idle" /\ op = "createUser") =>
    IF \/ MissingOrEmpty(args.email)
       \/ \A i \in 1..Len(args.email) : args.email[i] # "@"
       \/ MissingOrEmpty(args.name)
    THEN outcome.kind = "rejected" /\ requests = <<>> /\ reply.kind = "none"
    ELSE Len(requests) = 1

(* C12: every operation that takes an apiKey (createBot, retrieveBot,      *)
(* removeBotFromCall, retrieveTranscript) rejects with a validation        *)
(* failure and issues no request when the credential is empty or only      *)
(* whitespace.                                                             *)
C12_BlankCredentialIsRejected ==
  ( /\ pc # "idle"
    /\ op \in Authenticated \cup {"createBot"}
    /\ (MissingOrEmpty(args.apiKey) \/ OnlyWhitespace(args.apiKey)) ) =>
    /\ pc = "done"
    /\ outcome.kind = "rejected"
    /\ reply.kind = "none"
    /\ requests = <<>>

(* C13: with a non-empty userId, createApiKey sends the request for every  *)
(* name of 1 to 100 characters and rejects every longer name, without a    *)
(* request, with an error that mentions the 100-character limit.           *)
C13_NameLengthLimit ==
  ( /\ pc # "idle"
    /\ op = "createApiKey"
    /\ ~MissingOrEmpty(args.userId)
    /\ ~MissingOrEmpty(args.name) ) =>
    IF Len(args.name) <= 100
    THEN /\ Len(requests) = 1
         /\ requests[1].data = <<[name |-> args.name, userId |-> args.userId]>>
    ELSE /\ pc = "done"
         /\ requests = <<>>
         /\ outcome.kind = "rejected"
         /\ ContainsMessage(outcome.error.message,
                            <<"name must not exceed 100 characters">>)

C13_Witness ==
  /\ pc = "done"
  /\ op = "createApiKey"
  /\ args.userId = <<"1">>
  /\ Len(args.name) = 101
  /\ outcome.kind = "rejected"
  /\ requests = <<>>

(* The base URL that input u configures *)
NormalizedBase(u) ==
  (IF EndsWith(u, "/") THEN SubSeq(u, 1, Len(u) - 1) ELSE u) \o ApiSuffix

(* C14: a request dispatched after a successful setBaseUrl(u), and before  *)
(* the next one, targets the normalized u; the last setBaseUrl wins; a     *)
(* request in flight keeps the base URL it was dispatched with.            *)
C14_RequestsFollowLastSetBaseUrl ==
  [][ /\ (pc = "idle" /\ pc' = "inflight" /\ configuredBy = "setBaseUrl") =>
           requests'[1].baseURL = NormalizedBase(cfgInput)
      /\ (pc = "inflight" /\ pc' # "idle") => requests' = requests
    ]_vars

C14_Witness ==
  /\ pc = "inflight"
  /\ configuredBy = "setBaseUrl"
  /\ requests[1].baseURL # Undefined
  /\ requests[1].baseURL # defaultsBaseURL
  /\ defaultsBaseURL = NormalizedBase(cfgInput)

(* C15: in every reachable state, with the default transport or with a     *)
(* caller-supplied axios instance, the base URL the dispatcher sends       *)
(* requests to equals the stored normalized base URL.                      *)
C15_DispatcherBaseIsStoredBase ==
  defaultsBaseURL = baseUrl

(* C16: setBaseUrl with an empty base URL fails with 'baseUrl cannot be    *)
(* empty' and leaves the stored base URL and the dispatcher's base URL     *)
(* unchanged, the stored one still being the previously configured base.   *)
C16_EmptySetBaseUrlChangesNothing ==
  [][ (setLog' # setLog /\ MissingOrEmpty(setLog'[1].input)) =>
        /\ Len(setLog'[1].threw) = 1
        /\ setLog'[1].threw[1].message = <<"baseUrl cannot be empty">>
        /\ baseUrl' = baseUrl
        /\ defaultsBaseURL' = defaultsBaseURL
        /\ baseUrl' = NormalizedBase(cfgInput')
    ]_vars

C16_Witness ==
  /\ setLog # <<>>
  /\ setLog[1].input = <<>>
  /\ setLog[1].threw # <<>>
  /\ configuredBy = "setBaseUrl"
  /\ pc = "inflight"
  /\ requests[1].baseURL = baseUrl

(* C17: for the operations that take an apiKey, what is dispatched (verb,  *)
(* path, headers, body, query) is determined by the operation and its      *)
(* other arguments, so two calls that differ only in a valid apiKey        *)
(* dispatch identical requests.                                            *)
C17_RequestIndependentOfApiKey ==
  ( /\ pc # "idle"
    /\ op \in Authenticated \cup {"createBot"}
    /\ requests # <<>> ) =>
    /\ requests[1].method = TableVerb
    /\ requests[1].url = TablePath
    /\ requests[1].data =
         IF op = "createBot"
         THEN <<[name |-> args.name, meetingUrl |-> args.meetingUrl]>>
         ELSE <<>>
    /\ requests[1].params =
         IF op = "retrieveTranscript" THEN args.params ELSE <<>>
    /\ requests[1].headers = DefaultHeaders

C17_Witness ==
  /\ pc = "inflight"
  /\ op = "retrieveTranscript"
  /\ args.apiKey = <<"j">>
  /\ requests[1].params # <<>>
  /\ requests[1].url = <<"/transcripts/", "1">>

====
